---- MODULE Spec2Model ----
(***************************************************************************)
(* A model of the phenolphthalein litmus-test runner: the Spinner         *)
(* synchroniser, the per-thread test automaton, the halt signal and halt  *)
(* rules, the observer/aggregator, and the runner's rotation loop.        *)
(***************************************************************************)
EXTENDS Integers, Sequences, FiniteSets, TLC

(***************************************************************************)
(* Bounds of the model.                                                    *)
(***************************************************************************)
\* Largest number of test threads in a manifest.
MaxThreads == 2
\* Largest value a test body writes into a variable.
MaxVal == 1
\* Largest iteration count / rotation period used in an EveryNIterations rule.
MaxEvery == 2
\* Observations after which workers are no longer let into the test body
\* (keeps runs without an exit rule finite).
MaxIter == MaxEvery + 1

\* usize::MAX, narrowed to the largest integer the model checker represents.
UsizeMax == 2147483647

(***************************************************************************)
(* Options.  Option<T> is a record; None carries a dummy payload.          *)
(***************************************************************************)
None == [some |-> FALSE, v |-> 0]
\* None of an Option whose payload is an enumeration (halt type, outcome).
NoneS == [some |-> FALSE, v |-> ""]
Some(x) == [some |-> TRUE, v |-> x]
unwrap_or(o, d) == IF o.some THEN o.v ELSE d

(***************************************************************************)
(* Outcomes and halt types, with their derived orderings.                  *)
(***************************************************************************)
Outcomes == {"Pass", "Fail", "Unknown"}

\* #[derive(PartialOrd, Ord)] on Outcome: declaration order.
OutcomeRank(o) == CASE o = "Pass" -> 0 [] o = "Fail" -> 1 [] o = "Unknown" -> 2

HaltTypes == {"Rotate", "Exit"}

\* #[derive(PartialOrd, Ord)] on halt::Type: Rotate < Exit.
TypeRank(t) == CASE t = "Rotate" -> 0 [] t = "Exit" -> 1

\* Signal::set's encoding of a halt type as a byte.
to_u8(t) == CASE t = "Rotate" -> 1 [] t = "Exit" -> 2

\* A decoding that knows the byte of Rotate only.
from_u8_rotate_only(b) == CASE b = 1 -> Some("Rotate") [] OTHER -> NoneS

\* Signal::get's decoding of the byte: 1 and 2 are halt types, the rest None.
from_u8(b) == CASE b = 1 -> Some("Rotate") [] b = 2 -> Some("Exit") [] OTHER -> NoneS

\* A maximum that keeps the lesser halt type.
MaxOptType_min(a, b) ==
    IF ~a.some THEN b
    ELSE IF ~b.some THEN a
    ELSE IF TypeRank(b.v) <= TypeRank(a.v) THEN b ELSE a

\* Option<T>::max under the derived ordering None < Some(_), for halt types.
MaxOptType(a, b) ==
    IF ~a.some THEN b
    ELSE IF ~b.some THEN a
    ELSE IF TypeRank(b.v) >= TypeRank(a.v) THEN b ELSE a

\* A maximum under an ordering that ranks Unknown lowest.
MaxOptOutcome_unknown_least(a, b) ==
    IF ~a.some THEN b
    ELSE IF ~b.some THEN a
    ELSE IF b.v = "Unknown" THEN a
    ELSE IF a.v = "Unknown" THEN b
    ELSE IF OutcomeRank(b.v) >= OutcomeRank(a.v) THEN b ELSE a

\* Option<Outcome>::max, as used by Report::insert.
MaxOptOutcome(a, b) ==
    IF ~a.some THEN b
    ELSE IF ~b.some THEN a
    ELSE IF OutcomeRank(b.v) >= OutcomeRank(a.v) THEN b ELSE a

(***************************************************************************)
(* Slots, environments and the manifest.                                   *)
(***************************************************************************)
Slot(is_atomic, index) == [is_atomic |-> is_atomic, index |-> index]

\* A count set from the latest slot alone.
add_slot_latest(res, slot) ==
    IF slot.is_atomic
    THEN [res EXCEPT !.atomic = slot.index + 1]
    ELSE [res EXCEPT !.non_atomic = slot.index + 1]

\* Reservation::add_slot: widen the count of the slot's atomicity.
add_slot(res, slot) ==
    IF slot.is_atomic
    THEN [res EXCEPT !.atomic = IF slot.index + 1 > @ THEN slot.index + 1 ELSE @]
    ELSE [res EXCEPT !.non_atomic = IF slot.index + 1 > @ THEN slot.index + 1 ELSE @]

RECURSIVE of_slots_from(_, _)
of_slots_from(res, slots) ==
    IF slots = << >> THEN res
    ELSE of_slots_from(add_slot(res, Head(slots)), Tail(slots))

\* Reservation::of_slots: fold add_slot over the slots from the default.
of_slots(slots) == of_slots_from([atomic |-> 0, non_atomic |-> 0], slots)

\* Cells that start at one.
Slotset_new_ones(res) ==
    [atomic |-> [i \in 1..res.atomic |-> 1],
     non_atomic |-> [i \in 1..res.non_atomic |-> 1]]

\* Slotset::new: default (zero) cells, as many as reserved.
Slotset_new(res) ==
    [atomic |-> [i \in 1..res.atomic |-> 0],
     non_atomic |-> [i \in 1..res.non_atomic |-> 0]]

\* A read that falls back on the last cell when out of range.
get_i32_clamped(e, slot) ==
    IF slot.is_atomic
    THEN IF slot.index + 1 \in DOMAIN e.atomic THEN e.atomic[slot.index + 1]
         ELSE IF e.atomic = << >> THEN 0 ELSE e.atomic[Len(e.atomic)]
    ELSE IF slot.index + 1 \in DOMAIN e.non_atomic THEN e.non_atomic[slot.index + 1]
         ELSE IF e.non_atomic = << >> THEN 0 ELSE e.non_atomic[Len(e.non_atomic)]

\* Slotset::get: range-checked read, the default when out of range.
get_i32(e, slot) ==
    IF slot.is_atomic
    THEN IF slot.index + 1 \in DOMAIN e.atomic THEN e.atomic[slot.index + 1] ELSE 0
    ELSE IF slot.index + 1 \in DOMAIN e.non_atomic
         THEN e.non_atomic[slot.index + 1] ELSE 0

\* A write that takes the index of every slot into the non-atomic cells.
set_i32_cross(e, slot, v) ==
    IF slot.index + 1 \in DOMAIN e.non_atomic
    THEN [e EXCEPT !.non_atomic[slot.index + 1] = v] ELSE e

\* Slotset::set: range-checked write, a no-op when out of range.
set_i32(e, slot, v) ==
    IF slot.is_atomic
    THEN IF slot.index + 1 \in DOMAIN e.atomic
         THEN [e EXCEPT !.atomic[slot.index + 1] = v] ELSE e
    ELSE IF slot.index + 1 \in DOMAIN e.non_atomic
         THEN [e EXCEPT !.non_atomic[slot.index + 1] = v] ELSE e

\* Variable names, in BTreeMap (name) order.
VarNames == <<"r", "x">>

\* The manifests tests are run with: n threads, a non-atomic r without an
\* initial value at slot 0, an atomic x with initial value 1 at slot 0.
Manifests(n) ==
    { [n_threads |-> n,
       i32s |-> [name \in {"r", "x"} |->
                   IF name = "r"
                   THEN [initial_value |-> None, slot |-> Slot(FALSE, 0)]
                   ELSE [initial_value |-> xi, slot |-> Slot(TRUE, 0)]]]
      : xi \in {Some(1)} }

\* Manifest::reserve
reserve(m) == of_slots([i \in 1..Len(VarNames) |-> m.i32s[VarNames[i]].slot])

\* A reset that skips the variables without an initial value.
RECURSIVE reset_from_given(_, _, _)
reset_from_given(e, m, names) ==
    IF names = << >> THEN e
    ELSE reset_from_given(
            IF m.i32s[Head(names)].initial_value.some
            THEN set_i32(e, m.i32s[Head(names)].slot, m.i32s[Head(names)].initial_value.v)
            ELSE e,
            m, Tail(names))

RECURSIVE reset_from(_, _, _)
reset_from(e, m, names) ==
    IF names = << >> THEN e
    ELSE reset_from(set_i32(e, m.i32s[Head(names)].slot,
                            unwrap_or(m.i32s[Head(names)].initial_value, 0)),
                    m, Tail(names))

\* Manifested::reset: every variable back to its initial value, or zero.
reset(e, m) == reset_from(e, m, VarNames)

\* current_state / Manifested::values: the valuation of the declared variables.
current_state(e, m) == [name \in DOMAIN m.i32s |-> get_i32(e, m.i32s[name].slot)]

\* The entries of a valuation, last name first.
i32_values_reversed(e, m) ==
    [i \in 1..Len(VarNames) |->
        <<VarNames[Len(VarNames) + 1 - i],
          get_i32(e, m.i32s[VarNames[Len(VarNames) + 1 - i]].slot)>>]

\* Manifested::i32_values: one (name, value) entry for each declared
\* variable, as the ordered map yields them.
i32_values(e, m) ==
    [i \in 1..Len(VarNames) |-> <<VarNames[i], get_i32(e, m.i32s[VarNames[i]].slot)>>]

(***************************************************************************)
(* Halt rules.                                                             *)
(***************************************************************************)
\* The AtomicBool that Condition::on_callback shares between its condition
\* and its callback.
VARIABLE signal

EveryNIterations(n) == [kind |-> "EveryNIterations", n |-> n, o |-> "Unknown"]
OnOutcome(o) == [kind |-> "OnOutcome", n |-> 1, o |-> o]
\* OnSignal(signal.clone()): the condition over the shared flag.
OnSignal == [kind |-> "OnSignal", n |-> 1, o |-> "Unknown"]

\* Condition::halt_with, ::exit and ::rotate
halt_with(c, ty) == [condition |-> c, halt_type |-> ty]
exit(c) == halt_with(c, "Exit")
rotate(c) == halt_with(c, "Rotate")

\* An iteration condition with its operands the wrong way round.
check_swapped(c, os) ==
    CASE c.kind = "EveryNIterations" -> c.n % os.iterations = 0
      [] c.kind = "OnSignal" -> signal
      [] c.kind = "OnOutcome" -> os.info.outcome = c.o

\* An iteration condition that counts from zero.
check_from_zero(c, os) ==
    CASE c.kind = "EveryNIterations" -> (os.iterations - 1) % c.n = 0
      [] c.kind = "OnSignal" -> signal
      [] c.kind = "OnOutcome" -> os.info.outcome = c.o

\* An outcome condition that looks at nothing.
check_outcome_blind(c, os) ==
    CASE c.kind = "EveryNIterations" -> os.iterations % c.n = 0
      [] c.kind = "OnSignal" -> signal
      [] c.kind = "OnOutcome" -> FALSE

\* A signal condition that never loads the flag.
check_signal_blind(c, os) ==
    CASE c.kind = "EveryNIterations" -> os.iterations % c.n = 0
      [] c.kind = "OnSignal" -> FALSE
      [] c.kind = "OnOutcome" -> os.info.outcome = c.o

\* An outcome condition that holds only at the first sighting of a state.
check_outcome_first(c, os) ==
    CASE c.kind = "EveryNIterations" -> os.iterations % c.n = 0
      [] c.kind = "OnSignal" -> signal
      [] c.kind = "OnOutcome" -> os.info.outcome = c.o /\ os.info.occurs = 1

\* Condition::check over a summary of the latest observation.
check(c, os) ==
    CASE c.kind = "EveryNIterations" -> os.iterations % c.n = 0
      [] c.kind = "OnSignal" -> signal
      [] c.kind = "OnOutcome" -> os.info.outcome = c.o

\* Condition::on_callback: the flag starts low.
on_callback_signal == FALSE

\* Rule::on_callback: the signal condition lifted to a rule of type ty.
Rule_on_callback(ty) == halt_with(OnSignal, ty)

\* Rule::exit_type: the rule's halt type when its condition holds.
rule_exit_type(rule, os) == IF check(rule.condition, os) THEN Some(rule.halt_type) ELSE NoneS

RECURSIVE max_from(_, _, _)
max_from(acc, rules, os) ==
    IF rules = << >> THEN acc
    ELSE max_from(MaxOptType(acc, rule_exit_type(Head(rules), os)), Tail(rules), os)

\* State::exit_type: the greatest halt type among the rules that fire.
exit_type(rules, os) == max_from(NoneS, rules, os)

\* iter::Strategy::halt_rules: the exit rule, then the rotation rule.
iter_halt_rules(iterations, period) ==
    (IF iterations.some THEN <<exit(EveryNIterations(iterations.v))>> ELSE << >>)
    \o (IF period.some THEN <<rotate(EveryNIterations(period.v))>> ELSE << >>)

\* check::Strategy::halt_rules: an exit rule on the outcome halted upon, if any.
check_halt_rules(halt_outcome) ==
    IF halt_outcome.some THEN <<exit(OnOutcome(halt_outcome.v))>> ELSE << >>

\* The rule lists runs are built with: none; exit after I; exit after I with
\* rotation every P; rotation only; exit on a failing outcome, alone and
\* ahead of iteration rules; a rotation rule listed ahead of an exit rule.
RuleSets ==
    {<< >>}
    \cup {iter_halt_rules(Some(i), None) : i \in 1..MaxEvery}
    \cup {iter_halt_rules(Some(i), Some(p)) : i \in 1..MaxEvery, p \in 1..MaxEvery}
    \cup {<<rotate(EveryNIterations(1))>>}
    \cup {check_halt_rules(Some("Fail"))}
    \cup {check_halt_rules(Some("Fail")) \o iter_halt_rules(Some(MaxEvery), Some(1))}
    \cup {<<rotate(EveryNIterations(1)), exit(EveryNIterations(MaxEvery))>>}

(***************************************************************************)
(* Checkers.                                                               *)
(***************************************************************************)
CheckerKinds == {"unknown", "entry"}

\* Checker::check: the constant Unknown checker; the test's own predicate
\* (pass exactly when r still reads zero); or a function pointer that also
\* leaves some states undetermined (r zero but x not).
checker_check(kind, e, m) ==
    IF kind = "unknown" THEN "Unknown"
    ELSE IF kind = "entry"
    THEN IF get_i32(e, m.i32s["r"].slot) = 0 THEN "Pass" ELSE "Fail"
    ELSE IF get_i32(e, m.i32s["r"].slot) # 0 THEN "Fail"
    ELSE IF get_i32(e, m.i32s["x"].slot) # 0 THEN "Unknown" ELSE "Pass"

(***************************************************************************)
(* The observer (aggregator).                                              *)
(***************************************************************************)
\* Addition that wraps around at the width of usize.
wrapping_add(a, b) == IF a > UsizeMax - b THEN a - (UsizeMax - b) - 1 ELSE a + b

\* usize::saturating_add
saturating_add(a, b) == IF a > UsizeMax - b THEN UsizeMax ELSE a + b

\* A first sighting numbered from one.
Info_new_one_based(outcome, iteration) ==
    [occurs |-> 1, outcome |-> outcome, iteration |-> iteration + 1]

\* Info::new: a first sighting, with an occurs count of 1.
Info_new(outcome, iteration) == [occurs |-> 1, outcome |-> outcome, iteration |-> iteration]

\* Info::inc
Info_inc_kept(info) == info

Info_inc(info) == [info EXCEPT !.occurs = saturating_add(@, 1)]

\* Observer::observe_state_for_first_time
observe_state_for_first_time(ob, kind, e, m) ==
    Info_new(checker_check(kind, e, m), ob.iterations)

\* An observation that records every sighting as a first one.
observe_state_info_fresh(ob, kind, e, m) ==
    observe_state_for_first_time(ob, kind, e, m)

\* Observer::observe_state: the info recorded for the current valuation.
observe_state_info(ob, kind, e, m) ==
    IF current_state(e, m) \in DOMAIN ob.obs
    THEN Info_inc(ob.obs[current_state(e, m)])
    ELSE observe_state_for_first_time(ob, kind, e, m)

\* An observation that has the checker classify every sighting.
observe_state_calls_always(ob, e, m) == 1

\* Observer::observe_state: the calls it makes to Checker::check, one
\* through observe_state_for_first_time when the map has no entry for the
\* current valuation, none otherwise.
observe_state_calls(ob, e, m) == IF current_state(e, m) \in DOMAIN ob.obs THEN 0 ELSE 1

\* HashMap::insert of the info under the current valuation.
obs_insert(obs, state, info) ==
    [s \in DOMAIN obs \cup {state} |-> IF s = state THEN info ELSE obs[s]]

\* Observer::observe: record the state, count the iteration, summarise.
observe_observer(ob, kind, e, m) ==
    [obs |-> obs_insert(ob.obs, current_state(e, m), observe_state_info(ob, kind, e, m)),
     iterations |-> saturating_add(ob.iterations, 1)]

\* A summary put together before the iteration is counted.
observe_summary_stale(ob, kind, e, m) ==
    [iterations |-> ob.iterations, info |-> observe_state_info(ob, kind, e, m)]

\* Observer::observe: the summary handed to the halt rules.
observe_summary(ob, kind, e, m) ==
    [iterations |-> saturating_add(ob.iterations, 1),
     info |-> observe_state_info(ob, kind, e, m)]

RECURSIVE report_from(_, _)
report_from(report, entries) ==
    IF entries = {} THEN report
    ELSE LET s == CHOOSE x \in entries : TRUE
         IN report_from([outcome |-> MaxOptOutcome(report.outcome, Some(s.info.outcome)),
                         states |-> report.states \cup {s}],
                        entries \ {s})

\* Observer::into_report: drain the map through Report::insert.
into_report(ob) ==
    report_from([outcome |-> NoneS, states |-> {}],
                {[state |-> s, info |-> ob.obs[s]] : s \in DOMAIN ob.obs})

EmptyObs == [s \in {} |-> 0]

(***************************************************************************)
(* The Spinner's decisions.                                                *)
(***************************************************************************)
\* Spinner::run: the assertion on the value the decrement read.
run_assert(count) == 0 < count

\* Every decrementer taking itself for the last one.
run_is_last_any(count) == TRUE

\* Spinner::run: the decrementer that read 1 is the last runner.
run_is_last(count) == count = 1

\* A store that releases the waiters but leaves room for a single increment.
run_store_value_short(n) == -1

\* Spinner::run: the value the last runner stores to release the waiters.
run_store_value(n) == -n

\* The roles handed out the wrong way round.
run_role_flipped(is_last) == IF is_last THEN "Waiter" ELSE "Observer"

\* Every runner handed the observer's role.
run_role_both(is_last) == "Observer"

\* Spinner::run: the role handed to the last runner and to the others.
run_role(is_last) == IF is_last THEN "Observer" ELSE "Waiter"

\* A run that never spins.
run_spins_never(v) == FALSE

\* Spinner::run: a waiter keeps spinning while the counter reads >= 0.
run_spins(v) == v >= 0

\* Spinner::wait: the assertion on the value the increment read.
wait_assert(count) == count < 0

\* Every incrementer taking itself for the last one.
wait_is_last_any(count) == TRUE

\* Spinner::wait: the incrementer that read -1 is the last one waited upon.
wait_is_last(count) == count = -1

\* A store that leaves the counter at zero.
wait_store_value_zero(n) == 0

\* A store that leaves the counter at one whatever the thread count.
wait_store_value_one(n) == 1

\* Spinner::wait: the value the last incrementer stores to release the
\* others.
wait_store_value(n) == n

\* A wait that never spins.
wait_spins_never(v) == FALSE

\* Spinner::wait: the others keep spinning while the counter reads <= 0.
wait_spins(v) == v <= 0

(***************************************************************************)
(* State.                                                                  *)
(***************************************************************************)
VARIABLES
    manifest,      \* the test's manifest
    halt_rules,    \* shared::State::halt_rules
    checker,       \* shared::State::checker (its kind)
    permuter,      \* Runner::permuter (its kind)
    env,           \* the shared environment
    observer,      \* shared::State::observer: [obs, iterations]
    summary,       \* the summary of the latest observation
    inner,         \* Spinner::inner, the signed counter
    halt_state,    \* the halt signal's byte
    pc,            \* per automaton: where its thread stands
    role,          \* per automaton: the role its latest sync.run() returned
    local_exit,    \* per automaton: the halt type its observation returned
    done,          \* per automaton: the halt type its Done carries
    bodies,        \* per automaton: test bodies run since it was spawned
    rpc,           \* where the runner stands
    automata,      \* Runner::automata is Some
    ready,         \* automata still to be handed to the spawner, in order
    handles,       \* join handles not yet joined, in spawn order
    joined,        \* join_all's `done`: the first Done joined, if any
    report,        \* Runner::report
    result,        \* what Runner::run returned
    refs,          \* strong count of the Arc around the shared tester state
    tester,        \* locals of code that uses an environment directly: the values
                   \* it has set, and its latest call with what it returned
    checks,        \* calls made to Checker::check so far
    outside,       \* stores made to the halt signal from outside the automata:
                   \* for each, whether the workers' halt checks agreed then
    cycles,        \* cycles completed in the whole run: wait phases ended by the
                   \* store of +N
    ran,           \* per automaton: test bodies run in the whole run
    slots,         \* the slots handed to Reservation::of_slots, in order
    reservation    \* the reservation of_slots made of them, once it has

cfgVars == <<manifest, halt_rules, checker, permuter, signal>>
histVars == <<cycles, ran>>
resVars == <<slots, reservation>>
auxVars == <<tester, checks, outside, histVars, resVars>>
sharedVars == <<env, observer, summary>>
threadVars == <<pc, role, local_exit, done, bodies>>
runnerVars == <<rpc, automata, ready, handles, joined, report, result, refs>>
vars == <<cfgVars, auxVars, sharedVars, inner, halt_state, threadVars, runnerVars>>

nthreads == manifest.n_threads
Tids == 0..(nthreads - 1)

\* A counter that starts one short.
Spinner_new_short(n) == n - 1

\* Spinner::new: the counter starts at the number of threads.
Spinner_new(n) == n

\* Builder::make_shared_state: the environment is allocated and reset, the
\* observer is fresh.
make_shared_env(m) == reset(Slotset_new(reserve(m)), m)

Observer_new == [obs |-> EmptyObs, iterations |-> 0]

NoSummary == [iterations |-> 0, info |-> Info_new("Unknown", 0)]

\* Reservation::of_slots has not been called.
NoReservation == [some |-> FALSE, v |-> [atomic |-> 0, non_atomic |-> 0]]

\* No call has been made on an environment from outside the run.
NoCalls ==
    [written |-> [sl \in {} |-> 0],
     last |-> [kind |-> "none", slot |-> Slot(FALSE, 0), v |-> 0],
     state |-> << >>]

\* Inner::new and Inner::replicate: one Arc, cloned for each lower thread id.
replicate_refs(n) == 1 + (n - 1)

\* An Inner handle is cloned (Ready(i.clone()), inner.clone()).
clone_inner(r) == r + 1

\* An Inner handle is dropped: with the Runnable that became Done, or by the
\* unwinding of a panicked thread.
drop_inner(r) == r - 1

\* The state after Builder::build, just as Runner::run is entered, but for
\* the halt rules.
Built ==
    /\ \E n \in 1..MaxThreads : manifest \in Manifests(n)
    /\ tester = NoCalls
    /\ checks = 0
    /\ outside = << >>
    /\ cycles = 0
    /\ ran = [t \in Tids |-> 0]
    /\ slots = << >>
    /\ reservation = NoReservation
    /\ signal = on_callback_signal
    /\ checker \in CheckerKinds
    /\ permuter \in {"nop", "shuffle"}
    /\ env = make_shared_env(manifest)
    /\ observer = Observer_new
    /\ summary = NoSummary
    /\ inner = Spinner_new(nthreads)
    /\ halt_state = 0
    /\ pc = [t \in Tids |-> "ready"]
    /\ role = [t \in Tids |-> "None"]
    /\ local_exit = [t \in Tids |-> NoneS]
    /\ done = [t \in Tids |-> NoneS]
    /\ bodies = [t \in Tids |-> 0]
    /\ rpc = "loop"
    /\ automata = TRUE
    /\ ready = << >>
    /\ handles = << >>
    /\ joined = NoneS
    /\ report = NoneS
    /\ result = "running"
    /\ refs = replicate_refs(nthreads)

\* The state after Builder::build with one of the rule lists.
Init == halt_rules \in RuleSets /\ Built

(***************************************************************************)
(* The thread automaton (run_thread): one action per step of a worker.     *)
(* pc values: ready, check, body, sync_run, run_store, run_spin, observe,  *)
(* kill, sync_obs, sync_wait, wait_store, wait_spin, done, panicked.       *)
(***************************************************************************)
\* A halt signal that is never set.
set_halt_state_cleared(state) == 0

\* Inner::set_halt_state: the byte stored for an optional halt type.
set_halt_state(state) == IF state.some THEN to_u8(state.v) ELSE 0

\* Runnable::run, top of the loop: a set halt signal ends the automaton with
\* Done; otherwise the test body runs next.
HaltCheck(t) ==
    /\ pc[t] = "check"
    /\ from_u8(halt_state).some \/ observer.iterations < MaxIter
    /\ IF from_u8(halt_state).some
       THEN /\ pc' = [pc EXCEPT ![t] = "done"]
            /\ done' = [done EXCEPT ![t] = from_u8(halt_state)]
            /\ refs' = drop_inner(refs)
       ELSE /\ pc' = [pc EXCEPT ![t] = "body"]
            /\ UNCHANGED <<done, refs>>
    /\ UNCHANGED <<cfgVars, auxVars, sharedVars, inner, halt_state, role, local_exit, bodies,
                   rpc, automata, ready, handles, joined, report, result>>

\* What one test body leaves in the environment: nothing, or one value
\* stored into one declared variable.
body_writes(e, m) ==
    {e} \cup {set_i32(e, m.i32s[name].slot, v) : name \in DOMAIN m.i32s, v \in 0..MaxVal}

\* Inner::run: the test body of thread t runs against the environment.
Body(t) ==
    /\ pc[t] = "body"
    /\ env' \in body_writes(env, manifest)
    /\ bodies' = [bodies EXCEPT ![t] = @ + 1]
    /\ ran' = [ran EXCEPT ![t] = @ + 1]
    /\ pc' = [pc EXCEPT ![t] = "sync_run"]
    /\ UNCHANGED <<cfgVars, resVars, tester, checks, outside, cycles, observer, summary, inner, halt_state, role, local_exit, done,
                   runnerVars>>

\* Spinner::run, the fetch_sub and its assertion.
RunFetchSub(t) ==
    /\ pc[t] = "sync_run"
    /\ inner' = inner - 1
    /\ pc' = [pc EXCEPT ![t] =
                IF ~run_assert(inner) THEN "panicked"
                ELSE IF run_is_last(inner) THEN "run_store" ELSE "run_spin"]
    /\ refs' = IF ~run_assert(inner) THEN drop_inner(refs) ELSE refs
    /\ UNCHANGED <<cfgVars, auxVars, sharedVars, halt_state, role, local_exit, done, bodies,
                   rpc, automata, ready, handles, joined, report, result>>

\* Spinner::run, the last runner: store -nthreads and return its role.
RunStore(t) ==
    /\ pc[t] = "run_store"
    /\ inner' = run_store_value(nthreads)
    /\ role' = [role EXCEPT ![t] = run_role(TRUE)]
    /\ pc' = [pc EXCEPT ![t] = IF run_role(TRUE) = "Observer" THEN "observe" ELSE "sync_wait"]
    /\ UNCHANGED <<cfgVars, auxVars, sharedVars, halt_state, local_exit, done, bodies, runnerVars>>

\* Spinner::run, the others: leave the spin loop once the counter is read
\* negative, and return their role.
RunSpin(t) ==
    /\ pc[t] = "run_spin"
    /\ ~run_spins(inner)
    /\ role' = [role EXCEPT ![t] = run_role(FALSE)]
    /\ pc' = [pc EXCEPT ![t] = IF run_role(FALSE) = "Observer" THEN "observe" ELSE "sync_wait"]
    /\ UNCHANGED <<cfgVars, auxVars, sharedVars, inner, halt_state, local_exit, done, bodies,
                   runnerVars>>

\* observe() in the runner, through State::handle: record the valuation,
\* reset the environment, evaluate the halt rules.
Observe(t) ==
    /\ pc[t] = "observe"
    /\ observer' = observe_observer(observer, checker, env, manifest)
    /\ summary' = observe_summary(observer, checker, env, manifest)
    /\ checks' = checks + observe_state_calls(observer, env, manifest)
    /\ env' = reset(env, manifest)
    /\ local_exit' = [local_exit EXCEPT ![t] = exit_type(halt_rules, summary')]
    /\ pc' = [pc EXCEPT ![t] = IF exit_type(halt_rules, summary').some
                               THEN "kill" ELSE "sync_obs"]
    /\ UNCHANGED <<cfgVars, histVars, resVars, tester, outside, inner, halt_state, role, done, bodies,
                   runnerVars>>

\* Observable::kill: store the halt type, then relinquish.
Kill(t) ==
    /\ pc[t] = "kill"
    /\ halt_state' = set_halt_state(local_exit[t])
    /\ pc' = [pc EXCEPT ![t] = "sync_obs"]
    /\ UNCHANGED <<cfgVars, auxVars, sharedVars, inner, role, local_exit, done, bodies, runnerVars>>

\* Spinner::wait (and obs, which calls it): the fetch_add and its assertion.
WaitFetchAdd(t) ==
    /\ pc[t] \in {"sync_obs", "sync_wait"}
    /\ inner' = inner + 1
    /\ pc' = [pc EXCEPT ![t] =
                IF ~wait_assert(inner) THEN "panicked"
                ELSE IF wait_is_last(inner) THEN "wait_store" ELSE "wait_spin"]
    /\ refs' = IF ~wait_assert(inner) THEN drop_inner(refs) ELSE refs
    /\ UNCHANGED <<cfgVars, auxVars, sharedVars, halt_state, role, local_exit, done, bodies,
                   rpc, automata, ready, handles, joined, report, result>>

\* Spinner::wait, the last one waited upon: store +nthreads and return.
WaitStore(t) ==
    /\ pc[t] = "wait_store"
    /\ inner' = wait_store_value(nthreads)
    /\ cycles' = cycles + 1
    /\ role' = [role EXCEPT ![t] = "None"]
    /\ pc' = [pc EXCEPT ![t] = "check"]
    /\ UNCHANGED <<cfgVars, resVars, tester, checks, outside, ran, sharedVars, halt_state, local_exit, done, bodies, runnerVars>>

\* Spinner::wait, the others: leave the spin loop once the counter is read
\* positive, and return.
WaitSpin(t) ==
    /\ pc[t] = "wait_spin"
    /\ ~wait_spins(inner)
    /\ role' = [role EXCEPT ![t] = "None"]
    /\ pc' = [pc EXCEPT ![t] = "check"]
    /\ UNCHANGED <<cfgVars, auxVars, sharedVars, inner, halt_state, local_exit, done, bodies,
                   runnerVars>>

(***************************************************************************)
(* The runner: Runner::run, Instance::run and the scoped threader.         *)
(* rpc values: loop, spawn, join, into_outcome, scope_exit, returned.      *)
(***************************************************************************)
\* Inner::replicate: the instance's automata, thread ids 0 up to n-1 in order.
replicate(n) == [i \in 1..n |-> i - 1]

\* A shuffle that draws every position afresh, with repetition.
permute_redraw(kind, threads) ==
    IF kind = "nop" THEN {threads}
    ELSE {[i \in DOMAIN threads |-> threads[p[i]]] :
            p \in [DOMAIN threads -> DOMAIN threads]}

\* Permuter::permute: the no-op keeps the order, the shuffle yields any order.
permute(kind, threads) ==
    IF kind = "nop" THEN {threads}
    ELSE {[i \in DOMAIN threads |-> threads[p[i]]] :
            p \in {q \in [DOMAIN threads -> DOMAIN threads] :
                     \A i, j \in DOMAIN threads : q[i] = q[j] => i = j}}

\* A rotation branch that forgets to put the instance back.
run_replaces_never(outcome) == FALSE

\* Runner::run, the rotation branch: the instance is put back for another round.
run_replaces(outcome) == outcome = "Rotate"

\* A rotation that leaves the halt signal as it was.
rotate_halt_state_kept(h) == h

\* Instance::into_outcome on Rotate: the halt signal is cleared.
rotate_halt_state(h) == set_halt_state(NoneS)

\* Instance::spawn_all: every handle of the instance is cloned into a Ready.
RECURSIVE spawn_all_refs(_, _)
spawn_all_refs(r, n) == IF n = 0 THEN r ELSE spawn_all_refs(clone_inner(r), n - 1)

\* Runner::run takes the instance; Instance::spawn_all makes a Ready automaton
\* of every inner handle and permutes them.
StartRotation ==
    /\ rpc = "loop"
    /\ automata
    /\ automata' = FALSE
    /\ ready' \in permute(permuter, replicate(nthreads))
    /\ pc' = [t \in Tids |-> "ready"]
    /\ role' = [t \in Tids |-> "None"]
    /\ local_exit' = [t \in Tids |-> NoneS]
    /\ done' = [t \in Tids |-> NoneS]
    /\ bodies' = [t \in Tids |-> 0]
    /\ handles' = << >>
    /\ joined' = NoneS
    /\ rpc' = "spawn"
    /\ refs' = spawn_all_refs(refs, nthreads)
    /\ UNCHANGED <<cfgVars, auxVars, sharedVars, inner, halt_state, report, result>>

\* Threader::spawn_all, one spawn: the next ready automaton starts on its own
\* thread; after the last one, join_all begins.
Spawn ==
    /\ rpc = "spawn"
    /\ ready # << >>
    /\ pc' = [pc EXCEPT ![Head(ready)] = "check"]
    /\ handles' = Append(handles, Head(ready))
    /\ ready' = Tail(ready)
    /\ rpc' = IF Tail(ready) = << >> THEN "join" ELSE "spawn"
    /\ UNCHANGED <<cfgVars, auxVars, sharedVars, inner, halt_state, role, local_exit, done, bodies,
                   automata, joined, report, result, refs>>

\* Threader::join_all, one join: blocks until the thread has ended; a panicked
\* thread makes it fail with ThreadPanic, a Done is kept if it is the first.
Join ==
    /\ rpc = "join"
    /\ handles # << >>
    /\ pc[Head(handles)] \in {"done", "panicked"}
    /\ IF pc[Head(handles)] = "panicked"
       THEN /\ rpc' = "scope_exit"
            /\ result' = "ThreadPanic"
            /\ UNCHANGED <<joined, handles>>
       ELSE /\ joined' = IF joined.some THEN joined ELSE done[Head(handles)]
            /\ handles' = Tail(handles)
            /\ rpc' = IF Tail(handles) = << >> THEN "into_outcome" ELSE "join"
            /\ UNCHANGED result
    /\ UNCHANGED <<cfgVars, auxVars, sharedVars, inner, halt_state, threadVars, automata, ready,
                   report, refs>>

\* A rotation that starts the next round on a fresh observer.
rotate_observer_fresh(ob) == Observer_new

\* Instance::into_outcome on Rotate: the instance is handed back as it is,
\* its shared state and the observer in it included.
rotate_observer(ob) == ob

\* An exit that clones a handle and forgets to drop the instance.
exit_refs_kept(r, n) == clone_inner(r)

\* Instance::into_outcome on Exit: one handle is cloned, then the instance
\* and its n handles are dropped.
exit_refs(r, n) == clone_inner(r) - n

\* Inner::get_state: Arc::try_unwrap succeeds on the only strong reference.
get_state_ok(r) == r = 1

\* Instance::into_outcome and the match in Runner::run: on Rotate the halt
\* signal is cleared and the instance kept; on Exit the report is made.
IntoOutcome ==
    /\ rpc = "into_outcome"
    /\ IF joined.v = "Rotate"
       THEN /\ halt_state' = rotate_halt_state(halt_state)
            /\ observer' = rotate_observer(observer)
            /\ automata' = run_replaces(joined.v)
            /\ rpc' = "loop"
            /\ UNCHANGED <<report, result, refs>>
       ELSE IF get_state_ok(exit_refs(refs, nthreads))
       THEN /\ report' = Some(into_report(observer))
            /\ automata' = run_replaces(joined.v)
            /\ rpc' = "loop"
            /\ refs' = 0
            /\ UNCHANGED <<halt_state, observer, result>>
       ELSE /\ result' = "LockReleaseFailed"
            /\ rpc' = "scope_exit"
            /\ refs' = drop_inner(exit_refs(refs, nthreads))
            /\ UNCHANGED <<halt_state, observer, report, automata>>
    /\ UNCHANGED <<cfgVars, auxVars, env, summary, inner, threadVars, ready, handles, joined>>

\* Runner::run_rotation: what the ended thread scope yields for an instance
\* run that failed with `res`; a panicked thread makes it ThreadPanic.
scope_result(res, p) ==
    IF \E t \in DOMAIN p : p[t] = "panicked" THEN "ThreadPanic" ELSE res

\* Runner::run returns: after the loop with the report (LockReleaseFailed if
\* there is none), or with the error once the thread scope has ended, which
\* waits for every spawned thread.
Return ==
    /\ rpc \in {"loop", "scope_exit"}
    /\ IF rpc = "loop"
       THEN ~automata
       ELSE \A t \in Tids : pc[t] \in {"ready", "done", "panicked"}
    /\ result' = IF rpc = "scope_exit" THEN scope_result(result, pc)
                 ELSE IF report.some THEN "Ok" ELSE "LockReleaseFailed"
    /\ rpc' = "returned"
    /\ UNCHANGED <<cfgVars, auxVars, sharedVars, inner, halt_state, threadVars, automata, ready,
                   handles, joined, report, refs>>

Worker(t) ==
    \/ HaltCheck(t)
    \/ Body(t)
    \/ RunFetchSub(t)
    \/ RunStore(t)
    \/ RunSpin(t)
    \/ Observe(t)
    \/ Kill(t)
    \/ WaitFetchAdd(t)
    \/ WaitStore(t)
    \/ WaitSpin(t)

RunnerStep ==
    \/ StartRotation
    \/ Spawn
    \/ Join
    \/ IntoOutcome
    \/ Return

Next ==
    \/ \E t \in Tids : HaltCheck(t)
    \/ \E t \in Tids : Body(t)
    \/ \E t \in Tids : RunFetchSub(t)
    \/ \E t \in Tids : RunStore(t)
    \/ \E t \in Tids : RunSpin(t)
    \/ \E t \in Tids : Observe(t)
    \/ \E t \in Tids : Kill(t)
    \/ \E t \in Tids : WaitFetchAdd(t)
    \/ \E t \in Tids : WaitStore(t)
    \/ \E t \in Tids : WaitSpin(t)
    \/ StartRotation
    \/ Spawn
    \/ Join
    \/ IntoOutcome
    \/ Return

Spec == Init /\ [][Next]_vars

\* The scheduler runs every live thread, and the runner, again and again.
Fairness == (\A t \in 0..(MaxThreads - 1) : WF_vars(t \in Tids /\ Worker(t))) /\ WF_vars(RunnerStep)

\* Runs under the no-op permuter, scheduled fairly.
FairInit == Init /\ permuter = "nop"

FairSpec == FairInit /\ [][Next]_vars /\ Fairness

(***************************************************************************)
(* Runs halted by outcome rules of either halt type.                       *)
(***************************************************************************)
\* The rule lists with an outcome rule: exiting, rotating, and rotating ahead
\* of an exit by iteration count.
OutcomeRuleSets ==
    {<<halt_with(OnOutcome(o), ty)>> : o \in Outcomes, ty \in HaltTypes}
    \cup {<<rotate(OnOutcome(o)), exit(EveryNIterations(MaxIter))>> : o \in {"Pass", "Unknown"}}

OutcomeInit == halt_rules \in OutcomeRuleSets /\ Built

OutcomeSpec == OutcomeInit /\ [][Next]_vars

(***************************************************************************)
(* Runs in which a test body may panic.                                    *)
(***************************************************************************)
\* Inner::run: the test body of thread t panics, which ends its thread
\* before it reaches the synchroniser.
BodyPanic(t) ==
    /\ pc[t] = "body"
    /\ pc' = [pc EXCEPT ![t] = "panicked"]
    /\ refs' = drop_inner(refs)
    /\ UNCHANGED <<cfgVars, auxVars, sharedVars, inner, halt_state, role, local_exit, done, bodies,
                   rpc, automata, ready, handles, joined, report, result>>

PanicNext ==
    \/ Next
    \/ \E t \in Tids : BodyPanic(t)

\* A panic is never bound to happen; every live thread and the runner are
\* scheduled as before.
FairPanicSpec == FairInit /\ [][PanicNext]_vars /\ Fairness

(***************************************************************************)
(* Runs in which spawning a thread may fail.                               *)
(***************************************************************************)
\* Threader::spawn fails for the next ready automaton: spawn_all stops at the
\* first error, Instance::run passes it on, and the thread scope ends.
SpawnFail ==
    /\ rpc = "spawn"
    /\ ready # << >>
    /\ rpc' = "scope_exit"
    /\ result' = "IoError"
    /\ refs' = refs - Len(ready)
    /\ UNCHANGED <<cfgVars, auxVars, sharedVars, inner, halt_state, threadVars, automata, ready,
                   handles, joined, report>>

SpawnFailNext ==
    \/ Next
    \/ SpawnFail

\* A spawn is never bound to fail; every live thread and the runner are
\* scheduled as before.
FairSpawnFailSpec == FairInit /\ [][SpawnFailNext]_vars /\ Fairness

(***************************************************************************)
(* Runs whose rules include one made by Rule::on_callback.                 *)
(***************************************************************************)
\* The rule lists with a callback rule: alone with either halt type, and an
\* exiting one chained after iteration rules (as the binary does for Ctrl-C).
SignalRuleSets ==
    {<<Rule_on_callback(ty)>> : ty \in HaltTypes}
    \cup {iter_halt_rules(Some(MaxEvery), Some(1)) \o <<Rule_on_callback("Exit")>>}

SignalInit == halt_rules \in SignalRuleSets /\ Built

\* The callback is invoked (from a signal handler, at any moment while the
\* run still observes): the flag goes high.
Callback ==
    /\ rpc # "returned"
    /\ observer.iterations < MaxIter
    /\ signal' = TRUE
    /\ UNCHANGED <<manifest, halt_rules, checker, permuter, auxVars, sharedVars, inner,
                   halt_state,
                   threadVars, runnerVars>>

SignalNext ==
    \/ Next
    \/ Callback

\* The callback is never bound to be invoked; every live thread and the
\* runner are scheduled as before, under the no-op permuter.
FairSignalInit == SignalInit /\ permuter = "nop"

FairSignalSpec == FairSignalInit /\ [][SignalNext]_vars /\ Fairness

(***************************************************************************)
(* Stores to the halt signal from outside the automata.                    *)
(***************************************************************************)
\* Largest number of stores made from outside in one run.
MaxWrites == 1

\* The loads Runnable::run has made of the halt signal on worker t's thread
\* since it was spawned: one at the top of each loop iteration.
halt_loads(t) == bodies[t] + (IF pc[t] \in {"body", "done"} THEN 1 ELSE 0)

\* Every worker has loaded the halt signal as often as every other.
LoadsAgree == \A t, u \in Tids : halt_loads(t) = halt_loads(u)

\* Runs whose rules never fire, exit after MaxEvery iterations, or rotate
\* after every iteration, under the constant checker.
WriteRuleSets ==
    {<< >>, iter_halt_rules(Some(MaxEvery), None), <<rotate(EveryNIterations(1))>>}

WriteInit == halt_rules \in WriteRuleSets /\ Built /\ checker = "unknown"

\* Signal::set called by some thread other than through Observable::kill,
\* at any point while the workers run.
SignalSet ==
    /\ rpc \in {"spawn", "join"}
    /\ Len(outside) < MaxWrites
    /\ \E ty \in HaltTypes : halt_state' = to_u8(ty)
    /\ outside' = Append(outside, LoadsAgree)
    /\ UNCHANGED <<cfgVars, histVars, resVars, tester, checks, sharedVars, inner, threadVars, runnerVars>>

WriteNext ==
    \/ Next
    \/ SignalSet

\* No thread is bound to store to the halt signal; every live thread and
\* the runner are scheduled as before, under the no-op permuter.
FairWriteInit == WriteInit /\ permuter = "nop"

FairWriteSpec == FairWriteInit /\ [][WriteNext]_vars /\ Fairness

(***************************************************************************)
(* The observer on its own: observations of arbitrary valuations, then the *)
(* report.                                                                 *)
(***************************************************************************)
\* The checkers an observer is driven with here.
ReportCheckers == CheckerKinds \cup {"graded"}

\* The environments of a manifest's reservation holding values up to MaxVal.
EnvsOf(m) ==
    {[atomic |-> a, non_atomic |-> na] :
        a \in [1..reserve(m).atomic -> 0..MaxVal],
        na \in [1..reserve(m).non_atomic -> 0..MaxVal]}

\* Nothing is running: no rules, no worker spawned, the runner not started,
\* but for the slots handed to of_slots.
IdleBut ==
    /\ halt_rules = << >>
    /\ tester = NoCalls
    /\ checks = 0
    /\ outside = << >>
    /\ cycles = 0
    /\ ran = [t \in Tids |-> 0]
    /\ reservation = NoReservation
    /\ signal = on_callback_signal
    /\ permuter = "nop"
    /\ summary = NoSummary
    /\ inner = Spinner_new(nthreads)
    /\ halt_state = 0
    /\ pc = [t \in Tids |-> "ready"]
    /\ role = [t \in Tids |-> "None"]
    /\ local_exit = [t \in Tids |-> NoneS]
    /\ done = [t \in Tids |-> NoneS]
    /\ bodies = [t \in Tids |-> 0]
    /\ rpc = "loop"
    /\ automata = TRUE
    /\ ready = << >>
    /\ handles = << >>
    /\ joined = NoneS
    /\ report = NoneS
    /\ result = "running"
    /\ refs = replicate_refs(nthreads)

\* Nothing is running: no rules, no worker spawned, the runner not started.
Idle == IdleBut /\ slots = << >>

\* A fresh observer and no report.
ReportInit ==
    /\ manifest \in Manifests(1)
    /\ checker \in ReportCheckers
    /\ env = make_shared_env(manifest)
    /\ observer = Observer_new
    /\ Idle

\* Observer::observe of an environment holding any valuation.
ObserveEnv ==
    /\ ~report.some
    /\ observer.iterations < MaxIter
    /\ \E e \in EnvsOf(manifest) :
          /\ observer' = observe_observer(observer, checker, e, manifest)
          /\ summary' = observe_summary(observer, checker, e, manifest)
          /\ checks' = checks + observe_state_calls(observer, e, manifest)
    /\ UNCHANGED <<cfgVars, histVars, resVars, tester, outside, env, inner, halt_state, threadVars, runnerVars>>

\* Observer::into_report, as Runner::make_report calls it.
MakeReport ==
    /\ ~report.some
    /\ report' = Some(into_report(observer))
    /\ UNCHANGED <<cfgVars, auxVars, sharedVars, inner, halt_state, threadVars, rpc, automata,
                   ready, handles, joined, result, refs>>

ReportNext ==
    \/ ObserveEnv
    \/ MakeReport

ReportSpec == ReportInit /\ [][ReportNext]_vars

(***************************************************************************)
(* The observer late in a long run: its counters at or just below the      *)
(* largest usize.                                                          *)
(***************************************************************************)
\* How far below the largest usize the counters start.
MaxBelow == 1

\* The observer after `n` observations that all saw the valuation of `e`.
observer_after(n, kind, e, m) ==
    [obs |-> obs_insert(EmptyObs, current_state(e, m),
                        [Info_new(checker_check(kind, e, m), 0) EXCEPT !.occurs = n]),
     iterations |-> n]

LongRunInit ==
    /\ manifest \in Manifests(1)
    /\ checker \in ReportCheckers
    /\ env = make_shared_env(manifest)
    /\ \E below \in 0..MaxBelow, e \in EnvsOf(manifest) :
          observer = observer_after(UsizeMax - below, checker, e, manifest)
    /\ Idle

\* One more iteration: the test body is run and Observer::observe takes the
\* valuation it left.
ObserveLate ==
    /\ bodies[0] < MaxIter
    /\ bodies' = [bodies EXCEPT ![0] = @ + 1]
    /\ \E e \in EnvsOf(manifest) :
          /\ observer' = observe_observer(observer, checker, e, manifest)
          /\ summary' = observe_summary(observer, checker, e, manifest)
          /\ checks' = checks + observe_state_calls(observer, e, manifest)
    /\ UNCHANGED <<cfgVars, histVars, resVars, tester, outside, env, inner, halt_state, pc, role, local_exit,
                   done, runnerVars>>

LongRunNext == ObserveLate

LongRunSpec == LongRunInit /\ [][LongRunNext]_vars

(***************************************************************************)
(* The environment on its own: allocated from a reservation, then written. *)
(***************************************************************************)
\* Largest slot index a variable is given.
MaxSlot == 1
\* Largest number of writes made to an environment.
MaxSets == 2

\* Every slot a variable may be given.
AllSlots == {Slot(a, i) : a \in BOOLEAN, i \in 0..MaxSlot}

\* One-thread manifests whose two variables sit in any slots.
EnvManifests ==
    { [n_threads |-> 1,
       i32s |-> [name \in {"r", "x"} |->
                   [initial_value |-> None, slot |-> IF name = "r" THEN sr ELSE sx]]]
      : sr \in AllSlots, sx \in AllSlots }

\* A manifest is at hand; no environment has been allocated for it yet.
EnvInit ==
    /\ manifest \in EnvManifests
    /\ checker = "unknown"
    /\ env = Slotset_new(of_slots(<< >>))
    /\ observer = Observer_new
    /\ Idle

\* Env::of_reservations: the environment is allocated from the reservation
\* of the manifest's slots and handed over for use.
EnvAlloc ==
    /\ pc[0] = "ready"
    /\ env' = Slotset_new(reserve(manifest))
    /\ pc' = [pc EXCEPT ![0] = "body"]
    /\ UNCHANGED <<cfgVars, auxVars, observer, summary, inner, halt_state, role, local_exit,
                   done, bodies, runnerVars>>

\* The slots calls are made with: every slot a variable may have, and one
\* index beyond them for each atomicity.
CallSlots == AllSlots \cup {Slot(a, MaxSlot + 1) : a \in BOOLEAN}

\* Env::set_i32 of any value into any slot, reserved or not; the caller
\* keeps what it has set.
EnvSet ==
    /\ pc[0] = "body"
    /\ bodies[0] < MaxSets
    /\ \E slot \in CallSlots, v \in 0..(MaxVal + 1) :
          /\ env' = set_i32(env, slot, v)
          /\ tester' = [tester EXCEPT
                            !.written = obs_insert(tester.written, slot, v),
                            !.last = [kind |-> "set", slot |-> slot, v |-> v]]
    /\ bodies' = [bodies EXCEPT ![0] = @ + 1]
    /\ UNCHANGED <<cfgVars, histVars, resVars, checks, outside, observer, summary, inner, halt_state, pc, role,
                   local_exit, done, runnerVars>>

\* Env::get_i32 of any slot, reserved or not; the caller keeps the value
\* returned.
EnvGet ==
    /\ pc[0] = "body"
    /\ \E slot \in CallSlots :
          tester' = [tester EXCEPT
                        !.last = [kind |-> "get", slot |-> slot, v |-> get_i32(env, slot)]]
    /\ UNCHANGED <<cfgVars, histVars, resVars, checks, outside, sharedVars, inner, halt_state, threadVars,
                   runnerVars>>

EnvNext ==
    \/ EnvAlloc
    \/ EnvSet
    \/ EnvGet

EnvSpec == EnvInit /\ [][EnvNext]_vars

(***************************************************************************)
(* Reset and valuation on their own: any manifest, any contents.           *)
(***************************************************************************)
\* The slots lift_to_var_map gives two variables: within an atomicity the
\* variables are numbered from zero in the order they are listed, so no two
\* variables share a slot.
LiftedSlots ==
    {sp \in AllSlots \X AllSlots :
        IF sp[1].is_atomic = sp[2].is_atomic
        THEN sp[1].index + sp[2].index = 1
        ELSE sp[1].index = 0 /\ sp[2].index = 0}

\* One-thread manifests over those slots; an initial value may be absent.
ResetManifests ==
    { [n_threads |-> 1,
       i32s |-> [name \in {"r", "x"} |->
                   IF name = "r" THEN [initial_value |-> ir, slot |-> sp[1]]
                   ELSE [initial_value |-> ix, slot |-> sp[2]]]]
      : ir \in {None} \cup {Some(v) : v \in 0..MaxVal},
        ix \in {None} \cup {Some(v) : v \in 0..MaxVal},
        sp \in LiftedSlots }

\* Manifested::for_manifest, then any run of test bodies: the environment
\* is as wide as the manifest reserves and holds any contents.
ResetInit ==
    /\ manifest \in ResetManifests
    /\ checker = "unknown"
    /\ env \in EnvsOf(manifest)
    /\ observer = Observer_new
    /\ Idle

\* Manifested::reset
EnvReset ==
    /\ pc[0] = "ready"
    /\ env' = reset(env, manifest)
    /\ pc' = [pc EXCEPT ![0] = "reset"]
    /\ UNCHANGED <<cfgVars, auxVars, observer, summary, inner, halt_state, role, local_exit,
                   done, bodies, runnerVars>>

\* Manifested::values; the caller keeps the valuation returned.
EnvValues ==
    /\ pc[0] # "valued"
    /\ tester' = [tester EXCEPT
                    !.last = [kind |-> "values", slot |-> Slot(FALSE, 0), v |-> 0],
                    !.state = i32_values(env, manifest)]
    /\ pc' = [pc EXCEPT ![0] = IF @ = "reset" THEN "valued" ELSE @]
    /\ UNCHANGED <<cfgVars, histVars, resVars, checks, outside, sharedVars, inner, halt_state, role, local_exit,
                   done, bodies, runnerVars>>

\* Between a reset and the valuation that follows it a test body may run
\* or not; here none does.
ResetNext ==
    \/ EnvReset
    \/ EnvValues

ResetSpec == ResetInit /\ [][ResetNext]_vars

(***************************************************************************)
(* A reservation on its own: made from a sequence of slots.                *)
(***************************************************************************)
\* Largest number of slots handed to of_slots.
MaxVars == 3

SlotSeqs == UNION {[1..n -> AllSlots] : n \in 0..MaxVars}

ReserveInit ==
    /\ manifest \in Manifests(1)
    /\ checker = "unknown"
    /\ env = make_shared_env(manifest)
    /\ observer = Observer_new
    /\ slots \in SlotSeqs
    /\ IdleBut

\* Reservation::of_slots over the iterator of the slots.
OfSlots ==
    /\ ~reservation.some
    /\ reservation' = Some(of_slots(slots))
    /\ UNCHANGED <<cfgVars, tester, checks, outside, histVars, slots, sharedVars, inner, halt_state,
                   threadVars, runnerVars>>

ReserveNext == OfSlots

ReserveSpec == ReserveInit /\ [][ReserveNext]_vars

(***************************************************************************)
(* Properties.                                                             *)
(***************************************************************************)
Observers == {t \in Tids : role[t] = "Observer"}
WaiterSet == {t \in Tids : role[t] = "Waiter"}

\* C1: in each cycle exactly one sync.run() call returns Observer and the
\* other N-1 return Waiter (so a lone thread is always the Observer): at most
\* one thread holds the Observer role; from the sign flip until the cycle's
\* wait phase ends there is exactly one; once all N calls of the cycle have
\* returned, one role is Observer and N-1 are Waiter; and no call aborts
\* instead of returning a role.
C1_OneObserverPerCycle ==
    /\ Cardinality(Observers) <= 1
    /\ inner < 0 => Cardinality(Observers) = 1
    /\ (\A t \in Tids : role[t] # "None")
          => Cardinality(Observers) = 1 /\ Cardinality(WaiterSet) = nthreads - 1
    /\ \A t \in Tids : pc[t] # "panicked"

\* C1 witness: every one of two threads has had its role returned, in a
\* cycle after the first.
C1_Witness ==
    /\ nthreads = 2
    /\ observer.iterations >= 1
    /\ \A t \in Tids : role[t] # "None"

AboutToRun(t) == pc[t] \in {"ready", "check", "body", "sync_run"}
AboutToObs(t) == pc[t] \in {"observe", "kill", "sync_obs"}
AboutToWait(t) == pc[t] = "sync_wait"
Quiescent == \A t \in Tids : AboutToRun(t) \/ AboutToObs(t) \/ AboutToWait(t)

\* C2: whenever no thread is inside a synchroniser call (and all are still
\* following the protocol), either all N threads are about to call run(), or
\* exactly one is about to call obs() and the other N-1 are about to call
\* wait().
C2_PhaseInvariant ==
    Quiescent =>
        \/ \A t \in Tids : AboutToRun(t)
        \/ /\ Cardinality({t \in Tids : AboutToObs(t)}) = 1
           /\ Cardinality({t \in Tids : AboutToWait(t)}) = nthreads - 1

\* C2 witness: a quiescent moment of the observation phase with two threads.
C2_Witness ==
    /\ nthreads = 2
    /\ Quiescent
    /\ \E t \in Tids : AboutToObs(t)
    /\ \E t \in Tids : AboutToWait(t)

\* C3: from the return of sync.run() as Observer until the call of
\* sync.obs(), every other worker has finished this cycle's test body and
\* has not left this cycle's wait: none is at the top of its loop, in the
\* test body, or observing.
C3_ObserverExclusive ==
    \A t \in Tids :
        pc[t] \in {"observe", "kill", "sync_obs"} =>
            \A u \in Tids \ {t} : pc[u] \in {"run_spin", "sync_wait", "wait_spin"}

\* C3 witness: an observer about to observe while another worker already
\* spins in wait, after the environment was written to.
C3_Witness ==
    \E t, u \in Tids :
        /\ pc[t] = "observe"
        /\ pc[u] = "wait_spin"
        /\ env # make_shared_env(manifest)

\* C4: the workers that are Done carry the same halt type and have run the
\* same number of test bodies; while one is Done, every other worker has run
\* as many bodies and is at the top of its loop or leaving the wait before
\* it, with the halt signal still holding that type; join_all hands that
\* type to into_outcome.
C4_SameDone ==
    /\ \A t, u \in Tids :
          pc[t] = "done" =>
             /\ pc[u] \in {"done", "check", "wait_store", "wait_spin"}
             /\ bodies[u] = bodies[t]
             /\ pc[u] = "done" => done[u] = done[t]
             /\ from_u8(halt_state) = done[t] \/ rpc \in {"loop", "spawn", "returned"}
    /\ rpc = "into_outcome" => \A t \in Tids : pc[t] = "done" /\ done[t] = joined

\* C4 witness: two workers Done after two cycles, joined with Exit.
C4_Witness ==
    /\ nthreads = 2
    /\ rpc = "into_outcome"
    /\ joined = Some("Exit")
    /\ \A t \in Tids : bodies[t] = 2

\* C5: the halt signal reads as cleared whenever the runner spawns workers
\* and whenever a worker makes its first halt check, also after a rotation;
\* no worker is Done without having run the test body.
C5_RotateClears ==
    /\ rpc = "spawn" => halt_state = 0
    /\ \A t \in Tids :
          /\ pc[t] = "check" /\ bodies[t] = 0 => ~from_u8(halt_state).some
          /\ pc[t] = "done" => bodies[t] >= 1

\* C5 witness: a worker at its first halt check in a rotation that follows
\* an earlier one (observations were already made).
C5_Witness ==
    \E t \in Tids :
        /\ pc[t] = "check"
        /\ bodies[t] = 0
        /\ observer.iterations >= 1
        /\ summary.iterations >= 1

\* The halt types of the rules whose condition holds over a summary.
FiringTypes(os) ==
    {halt_rules[i].halt_type :
        i \in {j \in DOMAIN halt_rules : check(halt_rules[j].condition, os)}}

ExpectedHalt(os) ==
    IF "Exit" \in FiringTypes(os) THEN Some("Exit")
    ELSE IF "Rotate" \in FiringTypes(os) THEN Some("Rotate")
    ELSE NoneS

\* C6: after each observation the halt type emitted is Exit if some firing
\* rule says Exit, else Rotate if some firing rule says Rotate, else absent;
\* an emitted type is what the observer then stores into the halt signal.
C6_HaltDominance ==
    \A t \in Tids :
        /\ role[t] = "Observer" /\ pc[t] \in {"kill", "sync_obs", "wait_store", "wait_spin"}
              => local_exit[t] = ExpectedHalt(summary)
        /\ role[t] = "Observer" /\ pc[t] \in {"sync_obs", "wait_store", "wait_spin"}
              => halt_state = (IF ExpectedHalt(summary).some
                               THEN to_u8(ExpectedHalt(summary).v) ELSE 0)

\* C6 witness: an observation at which a Rotate rule and an Exit rule fire.
C6_Witness ==
    \E t \in Tids :
        /\ pc[t] = "kill"
        /\ FiringTypes(summary) = {"Rotate", "Exit"}

RECURSIVE SumOccurs(_)
SumOccurs(states) ==
    IF states = {} THEN 0
    ELSE LET s == CHOOSE x \in states : TRUE
         IN s.info.occurs + SumOccurs(states \ {s})

\* The rule lists of the claim: exit after I, alone or with rotation every P.
C7_Rules ==
    \E i \in 1..MaxEvery :
        \/ halt_rules = iter_halt_rules(Some(i), None)
        \/ \E p \in 1..MaxEvery : halt_rules = iter_halt_rules(Some(i), Some(p))

C7_Safe ==
    C7_Rules =>
        /\ observer.iterations <= halt_rules[1].condition.n
        /\ rpc = "returned" =>
              /\ result = "Ok"
              /\ observer.iterations = halt_rules[1].condition.n
              /\ IF report.some
                 THEN SumOccurs(report.v.states) = halt_rules[1].condition.n
                 ELSE FALSE

\* C7: with EveryNIterations(I) -> Exit, alone or with EveryNIterations(P)
\* -> Rotate, Runner::run returns, and it returns after exactly I
\* observations over all rotations with a report whose occurs sum to I.
C7_ExitAfterI == [](C7_Safe) /\ [](C7_Rules => <>(rpc = "returned"))

\* C7 witness: the run has returned after I = 2 observations with a
\* rotation in between.
C7_Witness ==
    /\ halt_rules = iter_halt_rules(Some(2), Some(1))
    /\ rpc = "returned"
    /\ observer.iterations = 2

HasFailRule == \E i \in DOMAIN halt_rules : halt_rules[i] = exit(OnOutcome("Fail"))

FailStates == {s \in DOMAIN observer.obs : observer.obs[s].outcome = "Fail"}

C8_Safe ==
    HasFailRule /\ FailStates # {} =>
        /\ \A s \in FailStates :
              /\ observer.obs[s].occurs = 1
              /\ observer.obs[s].iteration + 1 = observer.iterations
        /\ \A t \in Tids : pc[t] \notin {"body", "sync_run", "run_store", "observe"}
        /\ rpc = "returned" =>
              /\ result = "Ok"
              /\ IF report.some
                 THEN /\ report.v.outcome = Some("Fail")
                      /\ \A st \in report.v.states :
                            st.info.outcome = "Fail" => st.info.occurs = 1
                 ELSE FALSE

\* C8: with OnOutcome(Fail) -> Exit, once an observation has classified a
\* state Fail no test body and no observation follows, that state keeps
\* occurs = 1, the run returns, and the report's aggregate outcome is Fail.
C8_ExitOnFail == [](C8_Safe) /\ ((HasFailRule /\ FailStates # {}) ~> (rpc = "returned"))

\* C8 witness: the run has returned on a Fail seen at the second observation.
C8_Witness ==
    /\ HasFailRule
    /\ rpc = "returned"
    /\ FailStates # {}
    /\ observer.iterations = 2

RotateOnly == halt_rules = <<rotate(EveryNIterations(1))>>

C9_Safe ==
    RotateOnly =>
        /\ rpc # "returned"
        /\ \A t \in Tids : bodies[t] <= 1 /\ (pc[t] = "done" => done[t] = Some("Rotate"))
        /\ rpc = "into_outcome" => joined = Some("Rotate") /\ \A t \in Tids : bodies[t] = 1

\* C9: with EveryNIterations(1) -> Rotate as the only rule Runner::run never
\* returns; every instance run ends with Rotate after one cycle, and is
\* followed by another spawn of all N workers.
C9_RotateForever ==
    /\ [](C9_Safe)
    /\ ((RotateOnly /\ rpc = "into_outcome")
           ~> (rpc = "join" /\ \A t \in Tids : pc[t] # "ready"))

\* C9 witness: the runner spawns again after two rotations.
C9_Witness ==
    /\ RotateOnly
    /\ rpc = "spawn"
    /\ observer.iterations = 2

InitialValues ==
    \A name \in DOMAIN manifest.i32s :
        get_i32(env, manifest.i32s[name].slot)
            = unwrap_or(manifest.i32s[name].initial_value, 0)

\* No worker has run the test body of the cycle at hand and not yet had it
\* observed.
RunPhaseStart ==
    \A t \in Tids : pc[t] \notin {"sync_run", "run_store", "run_spin", "observe", "panicked"}

\* C10: at the start of every run phase (after build, after an observation,
\* after a rotation) every declared variable holds its initial value, or
\* zero when the manifest gives none.
C10_ResetBeforeRun == RunPhaseStart => InitialValues

\* C10 witness: a worker enters the first test body of a rotation after an
\* observation that recorded values written by test bodies.
C10_Witness ==
    \E t \in Tids :
        /\ pc[t] = "body"
        /\ bodies[t] = 0
        /\ RunPhaseStart
        /\ \E s \in DOMAIN observer.obs : s # current_state(env, manifest)

Panicked == {t \in Tids : pc[t] = "panicked"}

\* C11: once a worker thread has panicked, Runner::run returns, and it
\* returns ThreadPanic; no other worker stays blocked in the synchroniser.
C11_PanicReturns ==
    (Panicked # {}) ~> (rpc = "returned" /\ result = "ThreadPanic")

SpawnFailed == rpc = "scope_exit" /\ result = "IoError"

\* C12: once the spawn of one of the N workers has failed, Runner::run
\* returns, and it returns that error, also when workers spawned before it
\* are waiting in the synchroniser.
C12_SpawnFailReturns ==
    SpawnFailed ~> (rpc = "returned" /\ result = "IoError")

\* C13: when into_outcome(Exit) runs, every worker has been joined and has
\* dropped its handle, so the instance's N handles are the only references;
\* after the clone and the drop of the instance exactly one is left, the
\* shared state is unwrapped and LockReleaseFailed is never the result.
C13_ExitRefcount ==
    /\ rpc = "into_outcome" => refs = nthreads
    /\ rpc = "into_outcome" /\ joined = Some("Exit") => exit_refs(refs, nthreads) = 1
    /\ result # "LockReleaseFailed"
    /\ rpc = "returned" => report.some /\ refs = 0

\* C13 witness: two workers, an exit after a rotation, the state unwrapped.
C13_Witness ==
    /\ nthreads = 2
    /\ rpc = "loop"
    /\ ~automata
    /\ report.some
    /\ refs = 0
    /\ \E i \in DOMAIN halt_rules : halt_rules[i].halt_type = "Rotate"

\* C14: over every step, each state already in the observer's map stays in
\* it, its occurs count does not decrease, and its first iteration and its
\* outcome stay as they were when the entry was created.
C14_InfoMonotone ==
    [][\A st \in DOMAIN observer.obs :
          /\ st \in DOMAIN observer'.obs
          /\ observer'.obs[st].occurs >= observer.obs[st].occurs
          /\ observer'.obs[st].iteration = observer.obs[st].iteration
          /\ observer'.obs[st].outcome = observer.obs[st].outcome]_vars

\* C14 witness: a state seen again after another state was first seen.
C14_Witness ==
    \E st, su \in DOMAIN observer.obs :
        /\ observer.obs[st].occurs >= 2
        /\ observer.obs[su].iteration > observer.obs[st].iteration
        /\ observer.iterations = 3

ReportOutcomes == {st.info.outcome : st \in report.v.states}

\* C15: the aggregate outcome of a report made by into_report is absent
\* exactly when the report has no states; otherwise it is the outcome of one
\* of its states and no state's outcome ranks above it under
\* Pass < Fail < Unknown; the report holds every state of the observer.
C15_ReportOutcomeMax ==
    report.some =>
        /\ {st.state : st \in report.v.states} = DOMAIN observer.obs
        /\ report.v.outcome.some <=> report.v.states # {}
        /\ report.v.states # {} =>
              /\ report.v.outcome.some
              /\ report.v.outcome.v \in ReportOutcomes
              /\ \A o \in ReportOutcomes :
                    OutcomeRank(o) <= OutcomeRank(unwrap_or(report.v.outcome, "Pass"))

\* C15 witness: a report over states of all three outcomes.
C15_Witness ==
    /\ report.some
    /\ ReportOutcomes = Outcomes

\* C16: whenever a worker is about to do the fetch_sub of run() the counter
\* is > 0, whenever one is about to do the fetch_add of wait() or obs() the
\* counter is < 0, and no worker has panicked: neither Spinner assertion
\* fails in any interleaving.
C16_SpinnerAssertsHold ==
    \A t \in Tids :
        /\ pc[t] = "sync_run" => run_assert(inner)
        /\ pc[t] \in {"sync_obs", "sync_wait"} => wait_assert(inner)
        /\ pc[t] # "panicked"

\* C16 witness: in a later cycle the last of two runners is about to
\* decrement, and the last of two is about to increment.
C16_Witness ==
    /\ nthreads = 2
    /\ \E t \in Tids :
          /\ bodies[t] >= 2
          /\ \/ pc[t] = "sync_run" /\ inner = 1
             \/ pc[t] = "sync_wait" /\ inner = -1

SeqRange(q) == {q[i] : i \in DOMAIN q}

\* C17: in every spawn round the automata spawned so far and those still to
\* be spawned are N in all, with thread ids exactly 0..N-1, each once; the
\* workers started are exactly those handed to the spawner; once the round
\* is over all N have been started; the no-op permuter hands them over in
\* the order of their ids.
C17_SpawnRound ==
    /\ rpc = "spawn" =>
          /\ Len(handles \o ready) = nthreads
          /\ SeqRange(handles \o ready) = Tids
          /\ \A t \in Tids : pc[t] # "ready" <=> t \in SeqRange(handles)
          /\ permuter = "nop" => handles \o ready = replicate(nthreads)
    /\ rpc \in {"join", "into_outcome"} =>
          /\ \A t \in Tids : pc[t] # "ready"
          /\ \A i, j \in DOMAIN handles : handles[i] = handles[j] => i = j

\* C17 witness: after a rotation, the shuffling permuter has handed thread 1
\* over first and thread 0 is still to be spawned.
C17_Witness ==
    /\ rpc = "spawn"
    /\ permuter = "shuffle"
    /\ observer.iterations >= 1
    /\ handles = <<1>>
    /\ ready = <<0>>

\* C18: no step lowers the observer's iteration counter, and the steps of
\* a rotation (into_outcome, taking the instance again, spawning) leave the
\* observer's state map and iteration counter as they are.
C18_RotationKeepsObserver ==
    [][/\ observer'.iterations >= observer.iterations
       /\ rpc \in {"into_outcome", "loop", "spawn"} => observer' = observer]_vars

\* C18 witness: a round spawned after two rotations, with both earlier
\* observations still in the observer.
C18_Witness ==
    /\ rpc = "join"
    /\ \A t \in Tids : bodies[t] = 0
    /\ observer.iterations = 2
    /\ Cardinality(DOMAIN observer.obs) = 2

IsCallbackRule(r) == r.condition.kind = "OnSignal"
NotCallbackRule(r) == ~IsCallbackRule(r)

\* The halt type given to Rule::on_callback.
CallbackType ==
    halt_rules[CHOOSE i \in DOMAIN halt_rules : IsCallbackRule(halt_rules[i])].halt_type

OtherRules == SelectSeq(halt_rules, NotCallbackRule)

\* At an observation the callback rule adds nothing while the flag is low,
\* and a halt of at least its type is emitted once the flag is high.
C19_Observation ==
    \A t \in Tids :
        pc[t] = "observe" /\ pc'[t] # "observe" =>
            /\ ~signal => local_exit'[t] = exit_type(OtherRules, summary')
            /\ signal =>
                  /\ local_exit'[t].some
                  /\ TypeRank(unwrap_or(local_exit'[t], "Rotate")) >= TypeRank(CallbackType)

\* Once an Exit has been emitted no worker starts or finishes another cycle.
C19_Safe ==
    (CallbackType = "Exit" /\ signal /\ \E t \in Tids : local_exit[t] = Some("Exit"))
        => \A u \in Tids : pc[u] \notin {"body", "sync_run", "run_store", "observe"}

\* C19: a rule made by Rule::on_callback(ty) does not fire at observations
\* made before the callback is invoked; at the first observation after the
\* callback it fires with type ty (the halt emitted is at least ty); with
\* ty = Exit no cycle follows that observation and the run returns.
C19_CallbackRule ==
    /\ [][C19_Observation]_vars
    /\ [](C19_Safe)
    /\ ((signal /\ CallbackType = "Exit") ~> (rpc = "returned"))

\* C19 witness: the callback came after the first observation, and the run
\* has returned after the second.
C19_Witness ==
    /\ halt_rules = <<Rule_on_callback("Exit")>>
    /\ signal
    /\ rpc = "returned"
    /\ result = "Ok"
    /\ observer.iterations = 2

\* The slots within a reservation.
SlotsWithin(res) ==
    {Slot(TRUE, i) : i \in 0..(res.atomic - 1)}
    \cup {Slot(FALSE, i) : i \in 0..(res.non_atomic - 1)}

CellOf(e, slot) ==
    slot.index + 1 \in DOMAIN (IF slot.is_atomic THEN e.atomic ELSE e.non_atomic)

\* C20: in an environment allocated from a reservation and not yet written
\* to, every atomic and non-atomic slot within the reservation is backed by
\* a cell and get returns zero from it.
C20_FreshEnvReadsZero ==
    pc[0] = "body" /\ bodies[0] = 0 =>
        \A slot \in SlotsWithin(reserve(manifest)) :
            /\ CellOf(env, slot)
            /\ get_i32(env, slot) = 0

\* C20 witness: a fresh environment of two atomic cells and one non-atomic
\* cell.
C20_Witness ==
    /\ pc[0] = "body"
    /\ bodies[0] = 0
    /\ reserve(manifest) = [atomic |-> 2, non_atomic |-> 1]
    /\ Len(env.atomic) = 2
    /\ Len(env.non_atomic) = 1

InRange(slot) == slot \in SlotsWithin(reserve(manifest))

\* Every get of an in-range slot that was set before returns the value of
\* the latest set on it.
C21_GetLatest ==
    (tester.last.kind = "get" /\ InRange(tester.last.slot)
        /\ tester.last.slot \in DOMAIN tester.written)
        => tester.last.v = tester.written[tester.last.slot]

\* A set of an in-range slot is read back at once and changes what no other
\* slot reads.
C21_SetFrame ==
    (tester'.last.kind = "set" /\ bodies' # bodies /\ InRange(tester'.last.slot)) =>
        /\ get_i32(env', tester'.last.slot) = tester'.last.v
        /\ \A o \in CallSlots \ {tester'.last.slot} : get_i32(env', o) = get_i32(env, o)

\* C21: over any sequence of sets and gets, a get of an in-range slot
\* (atomic or not) returns the value of the most recent set on that slot,
\* and a set on one slot changes the value of no other slot.
C21_SetGet == [](C21_GetLatest) /\ [][C21_SetFrame]_vars

\* C21 witness: a get returns the second of two values set on an atomic
\* slot while a non-atomic slot of the same index holds another value.
C21_Witness ==
    /\ tester.last.kind = "get"
    /\ tester.last.slot = Slot(TRUE, 0)
    /\ InRange(Slot(TRUE, 0))
    /\ InRange(Slot(FALSE, 0))
    /\ Slot(TRUE, 0) \in DOMAIN tester.written
    /\ tester.last.v = MaxVal + 1
    /\ get_i32(env, Slot(FALSE, 0)) = 0
    /\ bodies[0] = 2

\* The (name, value) entries reset promises for manifest m: for each
\* declared variable its initial value, or zero when it has none.
InitialEntries(m) ==
    [i \in 1..Len(VarNames) |->
        <<VarNames[i],
          IF m.i32s[VarNames[i]].initial_value.some
          THEN m.i32s[VarNames[i]].initial_value.v ELSE 0>>]

\* C22: for any manifest and any environment contents, the valuation taken
\* after a reset has exactly one entry per declared variable, each entry
\* holds that variable's initial value (zero when it has none), and the
\* entries come in the manifest's name order.
C22_ResetValues ==
    pc[0] = "valued" => tester.state = InitialEntries(manifest)

\* A valuation taken after the reset of an environment whose cells all
\* differed from the initial values, one of which is absent.
C22_Witness ==
    /\ pc[0] = "valued"
    /\ ~manifest.i32s["r"].initial_value.some
    /\ manifest.i32s["x"].initial_value = Some(MaxVal)
    /\ manifest.i32s["x"].slot = Slot(FALSE, 0)
    /\ manifest.i32s["r"].slot = Slot(FALSE, 1)
    /\ tester.state = <<<<"r", 0>>, <<"x", MaxVal>>>>

\* A get whose slot lies outside the allocated cells has returned zero.
C23_GetDefault ==
    (tester.last.kind = "get" /\ ~InRange(tester.last.slot)) => tester.last.v = 0

\* A set whose slot lies outside the allocated cells changes no cell.
C23_SetNoOp ==
    (tester'.last.kind = "set" /\ bodies' # bodies /\ ~InRange(tester'.last.slot))
        => env' = env

\* C23: a get on a slot whose index is outside the allocated range returns
\* the default value, zero, and a set on such a slot is a no-op that leaves
\* every allocated cell unchanged.
C23_OutOfRange == [](C23_GetDefault) /\ [][C23_SetNoOp]_vars

\* An out-of-range get follows an out-of-range set of a non-zero value, on
\* an environment that holds a non-zero cell of the same atomicity.
C23_Witness ==
    /\ tester.last.kind = "get"
    /\ tester.last.slot = Slot(TRUE, MaxSlot + 1)
    /\ ~InRange(tester.last.slot)
    /\ tester.last.slot \in DOMAIN tester.written
    /\ tester.written[tester.last.slot] = MaxVal
    /\ InRange(Slot(TRUE, 0))
    /\ get_i32(env, Slot(TRUE, 0)) = MaxVal
    /\ tester.last.v = 0

\* The decrements and the increments worker u has performed on the counter
\* since it was spawned: one of each per cycle, the cycle's decrement once
\* its run() call is past the fetch_sub and the cycle's increment once its
\* wait() or obs() call is past the fetch_add.
Decrements(u) == IF pc[u] = "sync_run" THEN bodies[u] - 1 ELSE bodies[u]
Increments(u) ==
    IF pc[u] \in {"sync_run", "run_store", "run_spin", "observe", "kill", "sync_obs",
                  "sync_wait"}
    THEN bodies[u] - 1 ELSE bodies[u]

ReturnsFromRun(t) ==
    pc[t] \in {"run_store", "run_spin"} /\ pc'[t] \in {"observe", "sync_wait"}
ReturnsFromWait(t) == pc[t] \in {"wait_store", "wait_spin"} /\ pc'[t] = "check"

C24_Step ==
    /\ \A t \in Tids :
          /\ ReturnsFromRun(t) => \A u \in Tids : Decrements(u) = bodies[t]
          /\ ReturnsFromWait(t) => \A u \in Tids : Increments(u) = bodies[t]
    /\ (inner <= 0 /\ inner' > 0) =>
          /\ inner' = nthreads
          /\ \E t \in Tids : pc[t] = "wait_store" /\ pc'[t] = "check"
          /\ \A u, w \in Tids : Increments(u) = Increments(w)

\* C24: in the Spinner no run() call of a cycle returns before all N
\* threads have performed that cycle's decrement, and no wait() or obs()
\* call returns before all N threads, the observer included, have performed
\* that cycle's increment; the counter becomes positive again only through
\* the store of +N by the N-th incrementer.
C24_NoEarlyReturn == [][C24_Step]_vars

\* With two threads, in a cycle after the first: the waiter of the cycle is
\* back at the top of its loop while the other worker, the observer and the
\* last incrementer, has stored +N and returns next.
C24_Witness ==
    /\ nthreads = 2
    /\ inner = nthreads
    /\ \E t, u \in Tids :
          /\ pc[t] = "check" /\ bodies[t] >= 2 /\ role[t] = "None"
          /\ pc[u] = "check" /\ bodies[u] >= 2 /\ u # t

InRunCall(t) == pc[t] \in {"sync_run", "run_store", "run_spin"}
InWaitCall(t) == pc[t] \in {"sync_obs", "sync_wait", "wait_store", "wait_spin"}

\* C25: under weak fairness of every worker, with test bodies that
\* terminate, every Spinner cycle completes for one thread and for more:
\* a worker that calls run() eventually returns from it with its role, and a
\* worker that calls wait() or obs() eventually returns from it to the top
\* of its loop, however fast the other workers go on.
C25_CyclesComplete ==
    \A t \in 0..(MaxThreads - 1) :
        /\ (t \in Tids /\ InRunCall(t)) ~> (t \in Tids /\ pc[t] \in {"observe", "sync_wait"})
        /\ (t \in Tids /\ InWaitCall(t)) ~> (t \in Tids /\ pc[t] = "check")

\* A slow worker is still in the spin loop of run() while the fast one,
\* the observer, has observed, called obs() and spins in it.
C25_Witness ==
    /\ nthreads = 2
    /\ inner = -1
    /\ \E t, u \in Tids : pc[t] = "run_spin" /\ pc[u] = "wait_spin" /\ role[u] = "Observer"

\* The observation of worker u indicated a halt and u has gone on to store
\* the halt type.
HaltStored(u) == local_exit[u].some /\ pc[u] # "kill"

C26_Safe ==
    /\ \A u \in Tids :
          (local_exit[u].some /\ pc[u] \in {"sync_obs", "wait_store", "wait_spin"})
              => halt_state = to_u8(local_exit[u].v)
    /\ (\E u \in Tids : HaltStored(u)) =>
          \A t \in Tids : /\ pc[t] # "body"
                           /\ pc[t] = "check" => from_u8(halt_state).some

C26_Step ==
    /\ \A t \in Tids :
          (pc[t] = "kill" /\ pc'[t] # "kill") =>
              /\ halt_state' = to_u8(local_exit[t].v)
              /\ pc'[t] = "sync_obs"
              /\ inner' = inner
    /\ (\E u \in Tids : local_exit[u].some) =>
          \A t \in Tids : bodies'[t] <= bodies[t]

\* C26: when the observation indicates a halt, the observer stores the halt
\* type into the halt signal before it calls sync.obs(), and then calls
\* sync.obs(); so every worker finds the halt signal set at the top of its
\* next loop iteration, no worker runs the test body again after that
\* observation, and under fairness all N workers reach Done.
C26_HaltReachesAll ==
    /\ [](C26_Safe)
    /\ [][C26_Step]_vars
    /\ (\E u \in Tids : pc[u] = "kill") ~> (\A t \in Tids : pc[t] = "done")

\* With two threads, the observer that indicated the halt has already
\* ended as Done while the other worker, back from wait(), is at the top of
\* its loop.
C26_Witness ==
    /\ nthreads = 2
    /\ \E t, u \in Tids :
          /\ local_exit[u].some /\ pc[u] = "done"
          /\ t # u /\ pc[t] = "check" /\ bodies[t] >= 1

\* Worker t spins inside the synchroniser for a worker that has ended.
Blocked(t) ==
    /\ \E u \in Tids : pc[u] = "done"
    /\ \/ pc[t] = "run_spin" /\ run_spins(inner)
       \/ pc[t] = "wait_spin" /\ wait_spins(inner)

\* Every store made from outside fell where the workers' halt checks agreed.
AllAgreed == \A i \in DOMAIN outside : outside[i]

DoneAgree == \A t, u \in Tids : (pc[t] = "done" /\ pc[u] = "done") => done[t] = done[u]

\* C27 as stated: whichever thread stores to the halt signal, at whatever
\* point of a cycle, the workers that are Done carry the same halt type and
\* no worker is left spinning inside the synchroniser for workers that have
\* already ended.
C27_AnyWriteSafe == DoneAgree /\ \A t \in Tids : ~Blocked(t)

\* C27, amended: a store to the halt signal by any thread is safe when it
\* falls where every worker has made the same number of halt checks, as
\* the observer's store between its run() and obs() calls does: as long as
\* no store has fallen elsewhere, the workers that are Done carry the same
\* halt type, none is left spinning inside the synchroniser for workers
\* that have ended, and a halt signal that is set while the workers run is
\* followed by all N workers being Done.
C27_AgreedWriteSafe ==
    /\ [](AllAgreed => (DoneAgree /\ \A t \in Tids : ~Blocked(t)))
    /\ (rpc = "join" /\ halt_state # 0)
          ~> (~AllAgreed \/ \A t \in Tids : pc[t] = "done")

\* Both of two workers have run the test body and are Done with the halt
\* type that another thread stored at a point where their halt checks
\* agreed; no rule of the run has fired.
C27_Witness ==
    /\ nthreads = 2
    /\ outside = <<TRUE>>
    /\ \A t \in Tids : pc[t] = "done" /\ bodies[t] >= 1 /\ ~local_exit[t].some
    /\ \A t \in Tids : done[t] = Some("Exit")

Spinning(where) == Cardinality({t \in Tids : pc[t] = where})
RunSide == {"ready", "check", "body", "sync_run", "run_spin", "wait_spin", "done"}
ObsSide == {"run_spin", "observe", "kill", "sync_obs", "sync_wait", "wait_spin"}

\* C28: the Spinner counter always lies in [-N, N]; it is positive while
\* the decrements of a run phase come in (N less the decrements made), zero
\* exactly between the last decrement and the last runner's store of -N,
\* negative while the increments come in (-N plus the increments made),
\* and zero again exactly between the last increment and the last
\* incrementer's store of +N: it is >= 0 throughout a run phase, <= 0 from
\* the observer's store until the store of +N, and never 0 elsewhere.
C28_CounterRange ==
    /\ inner \in (0 - nthreads)..nthreads
    /\ inner > 0 =>
          /\ \A t \in Tids : pc[t] \in RunSide
          /\ inner = nthreads - Spinning("run_spin")
    /\ inner < 0 =>
          /\ \A t \in Tids : pc[t] \in ObsSide
          /\ inner = Spinning("wait_spin") - nthreads
    /\ inner = 0 <=> \E t \in Tids : pc[t] \in {"run_store", "wait_store"}
    /\ \A t \in Tids :
          /\ pc[t] = "run_store" => \A u \in Tids \ {t} : pc[u] = "run_spin"
          /\ pc[t] = "wait_store" => \A u \in Tids \ {t} : pc[u] = "wait_spin"

\* In a cycle after the first, with two threads: the counter reads zero
\* after the last increment, before +N is stored.
C28_Witness ==
    /\ nthreads = 2
    /\ inner = 0
    /\ \E t \in Tids : pc[t] = "wait_store" /\ bodies[t] >= 2

\* Worker t makes its observation in this step.
Observes(t) == pc[t] = "observe" /\ pc'[t] # "observe"

C29_Step ==
    \A t \in Tids :
        Observes(t) =>
            LET seen == current_state(env, manifest)
            IN /\ seen \in DOMAIN observer'.obs
               /\ seen \notin DOMAIN observer.obs =>
                     /\ observer'.obs[seen].outcome = checker_check(checker, env, manifest)
                     /\ observer'.obs[seen].iteration = observer.iterations
                     /\ observer'.obs[seen].occurs = 1
               /\ observer'.iterations = observer.iterations + 1
               /\ summary' = [iterations |-> observer.iterations + 1,
                              info |-> observer'.obs[seen]]
               /\ InitialValues'
               /\ local_exit'[t] = exit_type(halt_rules, [iterations |-> observer'.iterations,
                                                          info |-> observer'.obs[seen]])

\* C29: an observation snapshots the valuation, classifies it if it is
\* new, counts the iteration, resets the environment and then evaluates the
\* halt rules: the state recorded and the outcome the checker gave are
\* those of the values the test bodies left (before the reset), a new
\* state's first iteration is the count before the increment, the
\* environment holds the initial values afterwards, and the halt rules are
\* evaluated on the incremented count.
C29_ObserveOrder == [][C29_Step]_vars

\* An observer has just recorded, as failing, a valuation in which the
\* test bodies left r set, the environment is reset, and an exit rule on
\* the second iteration has fired.
C29_Witness ==
    \E t \in Tids :
        /\ pc[t] = "kill"
        /\ checker = "entry"
        /\ summary.iterations = 2
        /\ summary.info.outcome = "Fail"
        /\ summary.info.iteration = 1
        /\ InitialValues
        /\ halt_rules = iter_halt_rules(Some(2), None)
        /\ local_exit[t] = Some("Exit")

C30_Step ==
    observer'.iterations # observer.iterations =>
        \E seen \in DOMAIN observer'.obs :
            /\ summary'.info = observer'.obs[seen]
            /\ IF seen \in DOMAIN observer.obs
               THEN /\ checks' = checks
                    /\ summary'.info.outcome = observer.obs[seen].outcome
                    /\ DOMAIN observer'.obs = DOMAIN observer.obs
               ELSE /\ checks' = checks + 1
                    /\ DOMAIN observer'.obs = DOMAIN observer.obs \cup {seen}

\* C30: the checker is invoked exactly once per distinct state, on the
\* observation that first sees it: the calls made so far number the states
\* in the map, an observation of a new state makes one call, and an
\* observation of a state already in the map makes none and reports the
\* outcome recorded for it.
C30_CheckedOnce ==
    /\ [](checks = Cardinality(DOMAIN observer.obs))
    /\ [][C30_Step]_vars

\* Three observations under the graded checker have seen two distinct
\* states, one of them twice, and the checker was called twice.
C30_Witness ==
    /\ checker = "graded"
    /\ observer.iterations = 3
    /\ checks = 2
    /\ Cardinality(DOMAIN observer.obs) = 2
    /\ summary.info.occurs = 2
    /\ summary.info.outcome = "Fail"

C31_Recorded ==
    /\ \A st \in DOMAIN observer.obs :
          /\ observer.obs[st].occurs >= 1
          /\ observer.obs[st].iteration + observer.obs[st].occurs <= observer.iterations
          /\ \A other \in DOMAIN observer.obs \ {st} :
                observer.obs[other].iteration # observer.obs[st].iteration
    /\ observer.iterations >= 1 =>
          \E st \in DOMAIN observer.obs : observer.obs[st].iteration = 0

C31_Step ==
    observer'.iterations # observer.iterations =>
        \A st \in DOMAIN observer'.obs \ DOMAIN observer.obs :
            /\ observer'.obs[st].occurs = 1
            /\ observer'.obs[st].iteration = observer.iterations
            /\ observer'.obs[st].iteration = observer'.iterations - 1

\* C31: a state first seen on the k-th observation, counted from 1 over
\* all rotations, is recorded with occurs = 1 and first iteration k - 1, the
\* counter's value before that observation's increment; the first state
\* observed records iteration 0, and no two states record the same first
\* iteration.
C31_FirstIteration == [](C31_Recorded) /\ [][C31_Step]_vars

\* After a rotation, the second observation of the run has first seen a
\* state and recorded it with iteration 1.
C31_Witness ==
    /\ halt_rules = <<rotate(EveryNIterations(1)), exit(EveryNIterations(MaxEvery))>>
    /\ observer.iterations = 2
    /\ \E st \in DOMAIN observer.obs :
          observer.obs[st].iteration = 1 /\ observer.obs[st].occurs = 1

\* The iteration rules of the run, and those among them whose n divides k.
IterationRules == {i \in DOMAIN halt_rules : halt_rules[i].condition.kind = "EveryNIterations"}
Dividing(k) == {i \in IterationRules : k % halt_rules[i].condition.n = 0}

C32_Step ==
    \A t \in Tids :
        Observes(t) =>
            LET k == observer.iterations + 1
            IN /\ summary'.iterations = k
               /\ summary'.iterations # 0
               /\ \A i \in Dividing(k) :
                     /\ local_exit'[t].some
                     /\ TypeRank(local_exit'[t].v) >= TypeRank(halt_rules[i].halt_type)
               /\ IterationRules = DOMAIN halt_rules =>
                     IF Dividing(k) = {} THEN ~local_exit'[t].some
                     ELSE \E i \in Dividing(k) : local_exit'[t] = Some(halt_rules[i].halt_type)
               /\ \A i \in IterationRules :
                     halt_rules[i].condition.n = 1 => local_exit'[t].some

\* C32: EveryNIterations(n) fires on exactly the observations whose index,
\* counted from 1 (the iteration count after the increment), is a multiple
\* of n: the rules are never evaluated on a count of 0, a rule whose n
\* divides the index makes the observation halt with at least its type, a
\* run of iteration rules none of whose n divides the index does not halt,
\* and a rule with n = 1 halts every observation.
C32_EveryN == [][C32_Step]_vars

\* With two threads and an exit rule on every second iteration, the first
\* observation passed without a halt and the second has fired the rule.
C32_Witness ==
    /\ nthreads = 2
    /\ halt_rules = iter_halt_rules(Some(2), None)
    /\ observer.iterations = 2
    /\ \E t \in Tids : pc[t] = "sync_obs" /\ local_exit[t] = Some("Exit") /\ bodies[t] = 2

\* No worker is inside a cycle: the synchroniser is back at +N and every
\* worker is at the top of its loop, leaving the wait phase, or done.
BetweenCycles ==
    /\ inner = nthreads
    /\ \A t \in Tids : pc[t] \in {"ready", "check", "wait_spin", "done"}

ObsOccurs == SumOccurs({[state |-> st, info |-> observer.obs[st]] : st \in DOMAIN observer.obs})

\* C33: between cycles the occurs of the observer's states sum to its
\* iteration counter, the counter is the number of completed cycles, and every
\* worker has run the test body once per completed cycle.
C33_CycleCounts ==
    BetweenCycles =>
        /\ ObsOccurs = observer.iterations
        /\ observer.iterations = cycles
        /\ \A t \in Tids : ran[t] = cycles

C33_Witness ==
    /\ BetweenCycles
    /\ nthreads = 2
    /\ cycles = 2
    /\ \A t \in Tids : pc[t] = "check" /\ ran[t] = 2
    /\ \E st \in DOMAIN observer.obs : observer.obs[st].occurs = 2

occurs_after(st) ==
    IF st \in DOMAIN observer.obs
    THEN IF observer.obs[st].occurs = UsizeMax THEN UsizeMax ELSE observer.obs[st].occurs + 1
    ELSE 1

C34_Step ==
    observer' # observer =>
        /\ observer'.iterations =
               IF observer.iterations = UsizeMax THEN UsizeMax ELSE observer.iterations + 1
        /\ \E st \in DOMAIN observer'.obs :
              /\ observer'.obs[st].occurs = occurs_after(st)
              /\ summary'.info.occurs = occurs_after(st)
              /\ \A o \in DOMAIN observer.obs \ {st} : observer'.obs[o] = observer.obs[o]

C34_Range ==
    /\ observer.iterations >= 1 /\ observer.iterations <= UsizeMax
    /\ \A st \in DOMAIN observer.obs :
          observer.obs[st].occurs >= 1 /\ observer.obs[st].occurs <= UsizeMax

\* C34: an observation adds one to the occurs count of the state it sees
\* and to the iteration counter, except that a count already at the largest
\* usize stays there; no count ever becomes zero.
C34_Saturates == [](C34_Range) /\ [][C34_Step]_vars

C34_Witness ==
    /\ bodies[0] = MaxIter
    /\ Cardinality(DOMAIN observer.obs) = 1
    /\ observer.iterations = UsizeMax
    /\ summary.iterations = UsizeMax
    /\ summary.info.occurs = UsizeMax

OutcomeRules == {i \in DOMAIN halt_rules : halt_rules[i].condition.kind = "OnOutcome"}

Matching(outcome) == {i \in OutcomeRules : halt_rules[i].condition.o = outcome}

C35_Step ==
    \A t \in Tids :
        Observes(t) =>
            LET st == current_state(env, manifest)
                rec == observer'.obs[st]
            IN /\ summary'.info = rec
               /\ st \in DOMAIN observer.obs =>
                     /\ rec.outcome = observer.obs[st].outcome
                     /\ rec.occurs > 1
                     /\ checks' = checks
               /\ \A i \in Matching(rec.outcome) :
                     /\ local_exit'[t].some
                     /\ TypeRank(local_exit'[t].v) >= TypeRank(halt_rules[i].halt_type)
               /\ (OutcomeRules = DOMAIN halt_rules /\ Matching(rec.outcome) = {}) =>
                     ~local_exit'[t].some

AllDone == \A t \in Tids : pc[t] = "done"

AllReady == \A t \in Tids : pc[t] = "ready"

C36_AtN == (AllDone \/ AllReady) => inner = nthreads /\ run_assert(inner)

C36_Step ==
    (AllDone /\ ~AllDone') =>
        /\ rpc = "loop" /\ rpc' = "spawn"
        /\ inner' = inner
        /\ \A t \in Tids : pc'[t] = "ready"

\* C36: once every worker of an instance run is done the synchroniser's
\* counter is +N; the workers stay done until the next rotation is started,
\* which finds the same counter at +N, as a run phase needs it.
C36_DoneAtN == [](C36_AtN) /\ [][C36_Step]_vars

C36_Witness ==
    /\ AllDone
    /\ nthreads = 2
    /\ inner = 2
    /\ cycles = 2
    /\ \A t \in Tids : done[t] = Some("Rotate") /\ bodies[t] = 1

Kills(t) == pc[t] = "kill" /\ pc'[t] # "kill"

Observing == {t \in Tids : pc[t] \in {"observe", "kill"}}

C37_Step ==
    /\ \A t \in Tids :
          Kills(t) =>
              /\ Observing = {t}
              /\ role[t] = "Observer"
              /\ halt_state = 0
              /\ halt_state' # 0
    /\ halt_state' # halt_state =>
          \/ \E t \in Tids : Kills(t)
          \/ /\ rpc = "into_outcome"
             /\ joined = Some("Rotate")
             /\ handles = << >>
             /\ AllDone
             /\ halt_state' = 0
    /\ (rpc = "into_outcome" /\ rpc' # rpc /\ joined = Some("Rotate")) => halt_state' = 0

\* C37: the halt signal is stored to only by the one worker that holds the
\* observer's role, which finds it clear and leaves it set, so at most once
\* in an instance run; the only other change is its clearing by
\* into_outcome(Rotate), made when every worker is done and joined.
C37_SignalWrites == [](Cardinality(Observing) <= 1) /\ [][C37_Step]_vars

C37_Witness ==
    /\ nthreads = 2
    /\ rpc = "loop"
    /\ automata
    /\ AllDone
    /\ halt_state = 0
    /\ cycles = 2
    /\ \A t \in Tids : done[t] = Some("Rotate")

\* The largest index + 1 among the slots of one atomicity, 0 without any.
MaxCount(indices) ==
    IF indices = {} THEN 0
    ELSE LET i == CHOOSE x \in indices : \A y \in indices : y <= x IN i + 1

IndicesOf(seq, is_atomic) ==
    {seq[i].index : i \in {j \in DOMAIN seq : seq[j].is_atomic = is_atomic}}

Reorderings(seq) ==
    {[i \in DOMAIN seq |-> seq[f[i]]] :
        f \in {g \in [DOMAIN seq -> DOMAIN seq] : \A i, j \in DOMAIN seq : g[i] = g[j] => i = j}}

\* C38: the reservation made of a sequence of slots holds, for the atomic
\* and for the non-atomic slots apart, the largest index + 1 among them and
\* 0 when there is none; the slots in any other order give the same.
C38_OfSlots ==
    reservation.some =>
        /\ reservation.v.atomic = MaxCount(IndicesOf(slots, TRUE))
        /\ reservation.v.non_atomic = MaxCount(IndicesOf(slots, FALSE))
        /\ \A other \in Reorderings(slots) : of_slots(other) = reservation.v

C38_Witness ==
    /\ reservation.some
    /\ Len(slots) = MaxVars
    /\ slots[1].is_atomic /\ slots[1].index = MaxSlot
    /\ slots[2].is_atomic /\ slots[2].index = 0
    /\ ~slots[3].is_atomic
    /\ reservation.v.atomic = MaxSlot + 1
    /\ reservation.v.non_atomic = slots[3].index + 1

====
